---- MODULE Spec2Model ----
(***************************************************************************)
(* Practice-Track: PTKclasses.run(), TempoTimeSigMarkerWrapper,            *)
(* MediaItemReplicator.replicate(), getNonRedundantSigTimes() and          *)
(* PTKutils.userInputs(), as a state machine over the Reaper host's marker *)
(* and media-item stores.                                                  *)
(*                                                                         *)
(* Units.  Python floats of seconds are modelled as integer milliseconds   *)
(* (so the source's .001 s is 1), beats as integer milli-beats, bpm as an  *)
(* integer that divides 60000.                                             *)
(***************************************************************************)
EXTENDS Integers, Sequences, FiniteSets, TLC

\* ------------------------------------------------------------------ bounds
MaxDups == 2
MaxBetween == 1
MaxSigs == 2
MaxItems == 2
MaxKeys == 3

\* ------------------------------------------------------- program constants
\* .001 s, the tolerance of "sig.timepos <= self.pos + .001"
Eps == 1
\* 60. seconds per minute, in milliseconds ("60./self.posbpm")
MsPerMinute == 60000
\* milli-beats per beat (unit of posbeats / endbeats)
MilliBeat == 1000

\* ------------------------------------------------------------ input domains
BpmSet == {60, 120}
NumSet == {3, 4}
SigTimeSet == {0, 4000, 5000, 6000}
PosSet == {0, 4000}
LengthSet == {2000, 4000}
InOutSet == {0, 500}
T0Set == {0, 6000}

VARIABLES
    pc,           \* position of run(): Idle, Gathering, ... Done/Cancelled/Failed
    uin,          \* what userInputs() returned
    hostSigs,     \* host tempo/time-sig marker store, earliest first
    hostItems,    \* host media items, in host enumeration order
    calls,        \* number of mutating host calls made, by kind
    siglist,      \* run(): wrappers of the markers snapshotted in Gathering
    selectediids, \* run(): item references of the user's selection
    trackitems,   \* run(): MediaItemReplicator of every item of the track
    idx,          \* index of the loop the run is in
    endt,         \* run(): cursor
    incountsigd,  \* run(): accumulated marker map
    sigtimes,     \* run(): result of getNonRedundantSigTimes
    created,      \* wrappers whose create() succeeded in Finalizing
    nudges,       \* ApplyNudge calls made while replicating each item
    err,          \* the exception that ended the run, or "none"
    call,         \* a function under test: its name and arguments
    ret           \* and what it returned

vars == <<pc, uin, hostSigs, hostItems, calls, siglist, selectediids,
          trackitems, idx, endt, incountsigd, sigtimes, created, nudges,
          err, call, ret>>

runVars == <<pc, uin, hostItems, siglist, selectediids, trackitems, idx,
             endt, incountsigd, sigtimes, created, nudges, err>>

\* ----------------------------------------------------------------- helpers
\* Python dict assignment d[k] = v
Put(d, k, v) == [x \in (DOMAIN d) \cup {k} |-> IF x = k THEN v ELSE d[x]]

\* Python dict.update
Update(d, e) == [x \in (DOMAIN d) \cup (DOMAIN e) |-> IF x \in DOMAIN e THEN e[x] ELSE d[x]]

Max(S) == CHOOSE x \in S : \A y \in S : y <= x

Min(S) == CHOOSE x \in S : \A y \in S : x <= y

\* sorted(keys, reverse=True)
RECURSIVE SortedReverse(_)
SortedReverse(S) == IF S = {} THEN <<>> ELSE <<Max(S)>> \o SortedReverse(S \ {Max(S)})

\* ------------------------------------------------- TempoTimeSigMarkerWrapper
\* the tempo / time signature values a marker may carry
SigVals == [bpm : BpmSet, timesig_num : NumSet, timesig_denom : {4}, lineartempo : BOOLEAN]

\* the values the markers of a project under test carry
ProjectSigVals ==
    {v \in SigVals : \/ (v.bpm = 120 /\ v.timesig_num = 4)
                     \/ (v.bpm = 60 /\ v.timesig_num = 3 /\ ~v.lineartempo)}

\* a host marker: one entry of the host's marker store
HostSig(timepos, v) ==
    [timepos |-> timepos, bpm |-> v.bpm, timesig_num |-> v.timesig_num,
     timesig_denom |-> v.timesig_denom, lineartempo |-> v.lineartempo]

\* TempoTimeSigMarkerWrapper(proj, None, timepos, bpm, num, denom): deferred
DeferredSig(timepos, bpm, num, denom) ==
    [ptidx |-> -1, timepos |-> timepos, bpm |-> bpm, timesig_num |-> num,
     timesig_denom |-> denom, lineartempo |-> FALSE, deferred |-> TRUE]

\* TempoTimeSigMarkerWrapper(proj, ptidx) with ptidx >= 0: initByIdSearch.
\* Python index ptidx is host position ptidx + 1; past the end the host
\* call fails and the output arguments keep the values passed in.
initByIdSearch(host, ptidx) ==
    IF ptidx + 1 \in 1..Len(host)
    THEN [ptidx |-> ptidx, timepos |-> host[ptidx + 1].timepos,
          bpm |-> host[ptidx + 1].bpm,
          timesig_num |-> host[ptidx + 1].timesig_num,
          timesig_denom |-> host[ptidx + 1].timesig_denom,
          lineartempo |-> host[ptidx + 1].lineartempo, deferred |-> FALSE]
    ELSE [ptidx |-> ptidx, timepos |-> 0, bpm |-> 0, timesig_num |-> 0,
          timesig_denom |-> 0, lineartempo |-> FALSE, deferred |-> FALSE]

\* the wrapper the constructor builds for a negative ptidx, before create()
NegativeIdSig ==
    [ptidx |-> -1, timepos |-> 0, bpm |-> 0, timesig_num |-> 0,
     timesig_denom |-> 0, lineartempo |-> FALSE, deferred |-> FALSE]

\* the host calls TempoTimeSigMarkerWrapper.__init__(proj, ptidx) makes that
\* change the marker store: none to defer (None) or to load (ptidx >= 0),
\* self.create() for a negative ptidx
InitHostCalls(ptidx) ==
    IF ptidx >= 0 THEN <<>>
    ELSE <<[op |-> "create", sig |-> NegativeIdSig]>>

\* clone(): the fields of the cloned wrapper
CloneFields(self, time_value, is_offset) ==
    [ptidx |-> -1,
     timepos |-> IF is_offset THEN self.timepos + time_value ELSE time_value,
     bpm |-> self.bpm, timesig_num |-> self.timesig_num,
     timesig_denom |-> self.timesig_denom, lineartempo |-> self.lineartempo,
     deferred |-> FALSE]

\* clone(): "assert cloned.timepos >= 0.0"
CloneAssert(cloned) == cloned.timepos >= 0

\* clone(): the marker-store calls it makes, in order: the constructor's
\* (line 335, with this wrapper's own ptidx), then set() unless deferred
CloneHostCalls(self, time_value, is_offset, deferred) ==
    InitHostCalls(self.ptidx)
    \o (IF ~deferred /\ CloneAssert(CloneFields(self, time_value, is_offset))
        THEN <<[op |-> "set", sig |-> CloneFields(self, time_value, is_offset)]>>
        ELSE <<>>)

\* equivalentSigs(sig1, sig2)
equivalentSigs(sig1, sig2) ==
    /\ sig1.bpm = sig2.bpm
    /\ sig1.timesig_num = sig2.timesig_num
    /\ sig1.timesig_denom = sig2.timesig_denom
    /\ sig1.lineartempo = sig2.lineartempo

\* --------------------------------------------- MediaItemReplicator.replicate
\* itemsigs: "if self.pos <= sig.timepos < (self.pos + self.length)"
InItem(self, sig) == self.pos <= sig.timepos /\ sig.timepos < self.pos + self.length

ItemSigs(self, tempotimesiglist) == SelectSeq(tempotimesiglist, LAMBDA sig : InItem(self, sig))

\* insig: starts as tempotimesiglist[0]; every sig of the list, in list
\* order, with "sig.timepos <= self.pos + .001" replaces it
RECURSIVE InsigScan(_, _, _, _)
InsigScan(self, tempotimesiglist, i, insig) ==
    IF i > Len(tempotimesiglist) THEN insig
    ELSE InsigScan(self, tempotimesiglist, i + 1,
                   IF tempotimesiglist[i].timepos <= self.pos + Eps
                   THEN tempotimesiglist[i] ELSE insig)

Insig(self, tempotimesiglist) == InsigScan(self, tempotimesiglist, 1, tempotimesiglist[1])

\* "betweentime = nbetween * self.poscml * 60./self.posbpm"
Betweentime(self, nbetween) == nbetween * self.poscml * (MsPerMinute \div self.posbpm)

\* the incount marker recorded at t (lines 551-555 and 579-583)
IncountSig(t, insig) == DeferredSig(t, insig.bpm, insig.timesig_num, insig.timesig_denom)

\* the key under which a cloned item sig is recorded: "incountsigd[t] = ..."
CloneKey(t, cloned) == t

\* "for sig in itemsigs: incountsigd[t] = sig.clone(newpos - self.pos,
\* deferred=True)", stopping at the first clone whose assertion fails
RECURSIVE CloneItemSigs(_, _, _, _)
CloneItemSigs(self, itemsigs, i, st) ==
    IF i > Len(itemsigs) \/ st.err # "none" THEN st
    ELSE LET cloned == CloneFields(itemsigs[i], st.t - self.pos, TRUE)
             hc == CloneHostCalls(itemsigs[i], st.t - self.pos, TRUE, TRUE)
         IN  CloneItemSigs(self, itemsigs, i + 1,
                 IF CloneAssert(cloned)
                 THEN [st EXCEPT !.d = Put(@, CloneKey(st.t, cloned), cloned),
                                 !.hostcalls = @ \o hc]
                 ELSE [st EXCEPT !.err = "AssertionError",
                                 !.hostcalls = @ \o hc])

\* "nudge = self.length + self.outtime + betweentime + self.intime"
Nudge(self, betweentime) == self.length + self.outtime + betweentime + self.intime

\* mutant: the trail-out is left out of the advance
AdvanceToEndNoOuttime(self, t) == t + self.length

\* "t += self.length" ; "t += self.outtime"
AdvanceToEnd(self, t) == t + self.length + self.outtime

\* "for _ in range(ndups):" one pass per duplicate
RECURSIVE DupLoop(_, _, _, _, _, _)
DupLoop(self, itemsigs, insig, betweentime, n, st) ==
    IF n = 0 \/ st.err # "none" THEN st
    ELSE LET s1 == [st EXCEPT !.d = Put(@, st.t, IncountSig(st.t, insig)),
                              !.t = @ + betweentime + self.intime]
             s2 == CloneItemSigs(self, itemsigs, 1, s1)
             s3 == IF s2.err # "none" THEN s2
                   ELSE [s2 EXCEPT
                           !.hostcalls = @ \o <<[op |-> "ApplyNudge",
                                                 nudge |-> Nudge(self, betweentime)]>>,
                           !.t = AdvanceToEnd(self, @)]
         IN  DupLoop(self, itemsigs, insig, betweentime, n - 1, s3)

\* replicate(self, t0, ndups, nbetween): what it returns (t, d), the host
\* calls it makes that change host state, in order, and the exception that
\* ended it ("none": it returned)
replicate(self, tempotimesiglist, t0, ndups, nbetween) ==
    IF Len(tempotimesiglist) = 0
    THEN [err |-> "IndexError", t |-> t0, d |-> <<>>, hostcalls |-> <<>>]
    ELSE LET itemsigs == ItemSigs(self, tempotimesiglist)
             insig == Insig(self, tempotimesiglist)
             betweentime == Betweentime(self, nbetween)
             t1 == t0 + betweentime + self.intime
             s0 == [err |-> "none", t |-> t1,
                    d |-> Put(<<>>, t0, IncountSig(t0, insig)),
                    hostcalls |->
                      <<[op |-> "SetMediaItemSelected", iid |-> self.iid, sel |-> TRUE]>>
                      \o (IF t1 > self.pos
                          THEN <<[op |-> "SetPosition", iid |-> self.iid, pos |-> t1]>>
                          ELSE <<>>)]
             s1 == CloneItemSigs(self, itemsigs, 1, s0)
             s2 == IF s1.err # "none" THEN s1
                   ELSE [s1 EXCEPT !.t = AdvanceToEnd(self, @)]
             s3 == DupLoop(self, itemsigs, insig, betweentime, ndups, s2)
         IN  IF s3.err # "none" THEN s3
             ELSE [s3 EXCEPT !.hostcalls = @ \o
                      <<[op |-> "SetMediaItemSelected", iid |-> self.iid, sel |-> FALSE]>>]

\* ---------------------------------------------------------------- inputs
\* strictly ascending sequences over S of length lo..hi
AscSeqs(S, lo, hi) ==
    {q \in UNION {[1..n -> S] : n \in lo..hi} : \A i \in 1..(Len(q) - 1) : q[i] < q[i + 1]}

\* the host's marker stores: at most MaxSigs markers, earliest first
HostSigStores(times, lo) ==
    {[i \in 1..Len(ts) |-> HostSig(ts[i], vs[i])] :
        <<ts, vs>> \in {p \in AscSeqs(times, lo, MaxSigs) \X
                              UNION {[1..n -> ProjectSigVals] : n \in lo..MaxSigs} :
                        Len(p[1]) = Len(p[2])}}

\* the wrappers run() builds of a marker store (lines 59-67)
Snapshot(host) == [i \in 1..Len(host) |-> initByIdSearch(host, i - 1)]

\* the timing a MediaItemReplicator carries into replicate()
ItemTimings ==
    [iid : {1}, pos : PosSet, length : LengthSet, intime : InOutSet,
     outtime : InOutSet, poscml : NumSet, posbpm : BpmSet]

NoRet == [err |-> "pending"]

Idle == "Idle"

\* the variables of run(), at rest
RunAtRest ==
    /\ pc = Idle
    /\ uin = [is |-> "None", ndups |-> 1, nbetween |-> 1]
    /\ hostItems = <<>>
    /\ siglist = <<>>
    /\ selectediids = {}
    /\ trackitems = <<>>
    /\ idx = 0
    /\ endt = 0
    /\ incountsigd = <<>>
    /\ sigtimes = <<>>
    /\ created = <<>>
    /\ nudges = <<>>
    /\ err = "none"

NoCalls == [create |-> 0, set |-> 0, delete |-> 0, position |-> 0,
            select |-> 0, nudge |-> 0, suspend |-> 0, resume |-> 0]

\* ----------------------------------------- replicate() as a function
InitReplicate ==
    /\ RunAtRest
    /\ hostSigs = <<>>
    /\ calls = NoCalls
    /\ ret = NoRet
    /\ \E self \in ItemTimings, host \in HostSigStores(SigTimeSet, 1), t0 \in T0Set,
          ndups \in 0..MaxDups, nbetween \in 0..MaxBetween :
          call = [op |-> "replicate", self |-> self,
                  tempotimesiglist |-> Snapshot(host), t0 |-> t0,
                  ndups |-> ndups, nbetween |-> nbetween]

CallReplicate ==
    /\ call.op = "replicate"
    /\ ret = NoRet
    /\ ret' = replicate(call.self, call.tempotimesiglist, call.t0, call.ndups,
                        call.nbetween)
    /\ UNCHANGED <<runVars, hostSigs, calls, call>>

NextReplicate == CallReplicate

SpecReplicate == InitReplicate /\ [][NextReplicate]_vars

\* ------------------------------------------------- host: the marker store
\* RPR_SetTempoTimeSigMarker(proj, -1, timepos, ...) accepted by the host: a
\* new marker at timepos, the store kept in time order
HostInsertSig(host, sig) ==
    SelectSeq(host, LAMBDA x : x.timepos < sig.timepos)
    \o <<[timepos |-> sig.timepos, bpm |-> sig.bpm,
          timesig_num |-> sig.timesig_num,
          timesig_denom |-> sig.timesig_denom,
          lineartempo |-> sig.lineartempo]>>
    \o SelectSeq(host, LAMBDA x : x.timepos > sig.timepos)

\* RPR_DeleteTempoTimeSigMarker(proj, ptidx) accepted by the host: the marker
\* at Python index ptidx goes, the later ones move down one index
HostDeleteSig(host, ptidx) ==
    [i \in 1..(Len(host) - 1) |-> IF i < ptidx + 1 THEN host[i] ELSE host[i + 1]]

\* the marker-store calls hostcalls[i..], in order; oks[i] is whether the
\* host accepts call i.  create() raises ValueError when the host refuses;
\* set() only records the host's answer.
RECURSIVE ApplySigCalls(_, _, _, _)
ApplySigCalls(hostcalls, oks, i, st) ==
    IF i > Len(hostcalls) \/ st.err # "none" THEN st
    ELSE LET c == hostcalls[i]
             counted == [st.calls EXCEPT ![c.op] = @ + 1]
         IN  ApplySigCalls(hostcalls, oks, i + 1,
                 IF oks[i]
                 THEN [st EXCEPT !.host = HostInsertSig(@, c.sig), !.calls = counted]
                 ELSE [st EXCEPT !.calls = counted,
                                 !.err = IF c.op = "create" THEN "ValueError" ELSE "none"])

\* ------------------------------------------------- clone() as a function
CloneTimeValues == {-4000, 0, 2000}

\* the wrappers clone() may be called on: loaded from the store, deferred,
\* or themselves clones
CloneSources(host) ==
    {Snapshot(host)[i] : i \in 1..Len(host)}
    \cup {DeferredSig(t, v.bpm, v.timesig_num, v.timesig_denom) :
             t \in PosSet, v \in ProjectSigVals}
    \cup {CloneFields(Snapshot(host)[i], 2000, TRUE) : i \in 1..Len(host)}

InitClone ==
    /\ RunAtRest
    /\ calls = NoCalls
    /\ ret = NoRet
    /\ hostSigs \in HostSigStores(SigTimeSet, 0)
    /\ \E self \in CloneSources(hostSigs), time_value \in CloneTimeValues,
          is_offset \in BOOLEAN, deferred \in BOOLEAN :
          call = [op |-> "clone", self |-> self, time_value |-> time_value,
                  is_offset |-> is_offset, deferred |-> deferred,
                  host |-> hostSigs]

\* clone(self, time_value, is_offset, deferred)
CallClone ==
    /\ call.op = "clone"
    /\ ret = NoRet
    /\ \E oks \in [1..2 -> BOOLEAN] :
          LET cloned == CloneFields(call.self, call.time_value, call.is_offset)
              ctor == ApplySigCalls(InitHostCalls(call.self.ptidx), oks, 1,
                          [host |-> hostSigs, calls |-> calls, err |-> "none"])
              st == IF ctor.err # "none" THEN ctor
                    ELSE IF ~CloneAssert(cloned)
                         THEN [ctor EXCEPT !.err = "AssertionError"]
                         ELSE ApplySigCalls(
                                  CloneHostCalls(call.self, call.time_value,
                                                 call.is_offset, call.deferred),
                                  oks, Len(InitHostCalls(call.self.ptidx)) + 1, ctor)
          IN  /\ hostSigs' = st.host
              /\ calls' = st.calls
              /\ ret' = [err |-> st.err, cloned |-> cloned]
    /\ UNCHANGED <<runVars, call>>

NextClone == CallClone

SpecClone == InitClone /\ [][NextClone]_vars

\* ------------------------------------------------ getNonRedundantSigTimes
\* "for i, t in enumerate(sigtimes_r[0:-1])": nrkeys.insert(0, t) for every
\* key but the last of sigtimes_r whose sig differs from its predecessor's
\* mutant: the test is inverted, the redundant keys are the ones kept
RECURSIVE NonRedundantScanInverted(_, _, _, _)
NonRedundantScanInverted(sigd, sigtimes_r, i, nrkeys) ==
    IF i > Len(sigtimes_r) - 1 THEN nrkeys
    ELSE NonRedundantScanInverted(sigd, sigtimes_r, i + 1,
             IF equivalentSigs(sigd[sigtimes_r[i + 1]], sigd[sigtimes_r[i]])
             THEN <<sigtimes_r[i]>> \o nrkeys
             ELSE nrkeys)

RECURSIVE NonRedundantScan(_, _, _, _)
NonRedundantScan(sigd, sigtimes_r, i, nrkeys) ==
    IF i > Len(sigtimes_r) - 1 THEN nrkeys
    ELSE NonRedundantScan(sigd, sigtimes_r, i + 1,
             IF ~equivalentSigs(sigd[sigtimes_r[i + 1]], sigd[sigtimes_r[i]])
             THEN <<sigtimes_r[i]>> \o nrkeys
             ELSE nrkeys)

getNonRedundantSigTimes(sigd) ==
    NonRedundantScan(sigd, SortedReverse(DOMAIN sigd), 1, <<>>)

\* the elements of a sequence
Range(q) == {q[i] : i \in 1..Len(q)}

\* a marker map restricted to some of its keys
Restrict(sigd, keys) == [k \in (DOMAIN sigd) \cap keys |-> sigd[k]]

\* ------------------------------- getNonRedundantSigTimes as a function
SigdKeys == {k * 2000 : k \in 0..MaxKeys}

\* marker maps: a deferred marker of any project value at some of the keys
MarkerMaps ==
    UNION {[K -> {[bpm |-> v.bpm, timesig_num |-> v.timesig_num,
                   timesig_denom |-> v.timesig_denom,
                   lineartempo |-> v.lineartempo] : v \in ProjectSigVals}] :
             K \in SUBSET SigdKeys}

InitSigs ==
    /\ RunAtRest
    /\ hostSigs = <<>>
    /\ calls = NoCalls
    /\ ret = NoRet
    /\ \E sigd \in MarkerMaps : call = [op |-> "getNonRedundantSigTimes", sigd |-> sigd]

\* getNonRedundantSigTimes(M)
CallNonRedundant ==
    /\ call.op = "getNonRedundantSigTimes"
    /\ ret = NoRet
    /\ ret' = [err |-> "none", once |-> getNonRedundantSigTimes(call.sigd)]
    /\ UNCHANGED <<runVars, hostSigs, calls, call>>

\* getNonRedundantSigTimes(M restricted to the keys just returned)
CallNonRedundantAgain ==
    /\ call.op = "getNonRedundantSigTimes"
    /\ ret # NoRet
    /\ "twice" \notin DOMAIN ret
    /\ ret' = [err |-> "none", once |-> ret.once,
               twice |-> getNonRedundantSigTimes(Restrict(call.sigd, Range(ret.once)))]
    /\ UNCHANGED <<runVars, hostSigs, calls, call>>

NextSigs == CallNonRedundant \/ CallNonRedundantAgain

SpecSigs == InitSigs /\ [][NextSigs]_vars

\* --------------------------------------------------- PTKutils.userInputs
Digits == <<"0", "1", "2", "3", "4", "5", "6", "7", "8", "9">>

IsDigit(c) == \E i \in 1..Len(Digits) : Digits[i] = c

DigitVal(c) == (CHOOSE i \in 1..Len(Digits) : Digits[i] = c) - 1

RECURSIVE DigitsVal(_, _)
DigitsVal(str, acc) ==
    IF str = <<>> THEN acc ELSE DigitsVal(Tail(str), 10 * acc + DigitVal(Head(str)))

\* Python's int(s) on a string of characters: ok is FALSE for ValueError
PyInt(str) ==
    LET body == IF str # <<>> /\ Head(str) = "-" THEN Tail(str) ELSE str
        ok == body # <<>> /\ \A i \in 1..Len(body) : IsDigit(body[i])
    IN  [ok |-> ok,
         val |-> IF ~ok THEN 0
                 ELSE IF Head(str) = "-" THEN 0 - DigitsVal(body, 0)
                 ELSE DigitsVal(body, 0)]

\* what the user may type into one field of the dialog
FieldStrings(max) == {<<"x">>, <<"-", "1">>} \cup {<<Digits[d + 1]>> : d \in 0..max}

\* RPR_GetUserInputs: cancelled, or the two fields as typed
DialogResults ==
    {[ok |-> FALSE, ndups |-> <<>>, nbetween |-> <<>>]}
    \cup [ok : {TRUE}, ndups : FieldStrings(MaxDups), nbetween : FieldStrings(MaxBetween)]

\* userInputs("Parameters", ndups=1, nbetween=1): None if cancelled, False
\* if a field does not convert, else the Map of the converted fields
userInputs(result) ==
    IF ~result.ok THEN [is |-> "None", ndups |-> 1, nbetween |-> 1]
    ELSE IF ~PyInt(result.ndups).ok \/ ~PyInt(result.nbetween).ok
         THEN [is |-> "False", ndups |-> 1, nbetween |-> 1]
         ELSE [is |-> "Map", ndups |-> PyInt(result.ndups).val,
               nbetween |-> PyInt(result.nbetween).val]

\* run() lines 31-45: the inputs let the run go on
InputsAccepted(u) == u.is = "Map" /\ u.ndups >= 0 /\ u.nbetween >= 0

\* ------------------------------------------------- host: the time map
\* the tempo of a project without markers
DefaultSig == [timepos |-> 0, bpm |-> 120, timesig_num |-> 4, timesig_denom |-> 4,
               lineartempo |-> FALSE]

\* the marker in effect at time t: the latest at or before t
SigInEffect(host, t) ==
    IF \E i \in 1..Len(host) : host[i].timepos <= t
    THEN host[Max({i \in 1..Len(host) : host[i].timepos <= t})]
    ELSE DefaultSig

\* RPR_TimeMap2_timeToBeats(proj, tpos, ...): beats since the start of the
\* measure (retlist[0], in milli-beats), the measure length in beats
\* (retlist[4]) and the denominator (retlist[6]); a marker starts a measure
TimeToBeats(host, tpos) ==
    LET m == SigInEffect(host, tpos)
    IN  [beats |-> (((tpos - m.timepos) * m.bpm * MilliBeat) \div MsPerMinute)
                     % (m.timesig_num * MilliBeat),
         cml |-> m.timesig_num,
         cdenom |-> m.timesig_denom]

\* RPR_TimeMap2_GetDividedBpmAtTime(proj, time)
DividedBpmAtTime(host, t) ==
    (SigInEffect(host, t).bpm * SigInEffect(host, t).timesig_denom) \div 4

\* --------------------------------------------- MediaItemReplicator.__init__
\* "if self.endbeats < .001: self.length -= 0.001"
EndNudged(host, hostitem) ==
    TimeToBeats(host, hostitem.pos + hostitem.length).beats < Eps

MediaItemReplicator(host, hostitem) ==
    LET pos == hostitem.pos
        length == IF EndNudged(host, hostitem) THEN hostitem.length - Eps
                  ELSE hostitem.length
        end == pos + length
        p == TimeToBeats(host, pos)
        e == TimeToBeats(host, end)
        posbpm == DividedBpmAtTime(host, pos)
        endbpm == DividedBpmAtTime(host, end)
    IN  [iid |-> hostitem.iid, pos |-> pos, length |-> length, end |-> end,
         posbeats |-> p.beats, poscml |-> p.cml, poscdenom |-> p.cdenom,
         posbpm |-> posbpm,
         endbeats |-> e.beats, endcml |-> e.cml, endcdenom |-> e.cdenom,
         endbpm |-> endbpm,
         intime |-> ((MsPerMinute \div posbpm) * p.beats) \div MilliBeat,
         outtime |-> ((e.cml * MilliBeat - e.beats) * (MsPerMinute \div endbpm))
                       \div MilliBeat]

\* ------------------------------------------------ host: the media items
\* RPR_ApplyNudge(proj, 0, 5, 1, nudge, False, 1): every selected item is
\* duplicated nudge later; the copies are selected in place of the originals
ApplyNudge(items, nudge) ==
    LET sel == SelectSeq(items, LAMBDA it : it.sel)
    IN  [i \in 1..Len(items) |-> [items[i] EXCEPT !.sel = FALSE]]
        \o [i \in 1..Len(sel) |->
               [sel[i] EXCEPT !.iid = Len(items) + i, !.pos = @ + nudge]]

\* one host call of replicate() on the media items
ApplyItemCall(items, c) ==
    IF c.op = "SetMediaItemSelected"
    THEN [i \in 1..Len(items) |->
            IF items[i].iid = c.iid THEN [items[i] EXCEPT !.sel = c.sel] ELSE items[i]]
    ELSE IF c.op = "SetPosition"
    THEN [i \in 1..Len(items) |->
            IF items[i].iid = c.iid THEN [items[i] EXCEPT !.pos = c.pos] ELSE items[i]]
    ELSE IF c.op = "ApplyNudge" THEN ApplyNudge(items, c.nudge)
    ELSE items

RECURSIVE ApplyItemCalls(_, _, _)
ApplyItemCalls(items, hostcalls, i) ==
    IF i > Len(hostcalls) THEN items
    ELSE ApplyItemCalls(ApplyItemCall(items, hostcalls[i]), hostcalls, i + 1)

\* how many of the calls are of kind op
CountOp(hostcalls, op) == Cardinality({i \in 1..Len(hostcalls) : hostcalls[i].op = op})

\* the call counters after replicate()'s host calls
CountItemCalls(c, hostcalls) ==
    [c EXCEPT !.select = @ + CountOp(hostcalls, "SetMediaItemSelected"),
              !.position = @ + CountOp(hostcalls, "SetPosition"),
              !.nudge = @ + CountOp(hostcalls, "ApplyNudge")]

\* RPR_SelectAllMediaItems(0, False)
SelectAllMediaItems(items, sel) == [i \in 1..Len(items) |-> [items[i] EXCEPT !.sel = sel]]

\* ------------------------------------------------------------------ run()
ItemPosSet == {0, 4000, 8000}

ItemLengthSet == {4000}

RunSigTimeSet == {0, 4000, 5000}

Tracks == {1, 2}

\* the projects a run may start in: at most MaxItems items, in position
\* order, each on a track, selected or not
HostItemStores ==
    {[i \in 1..Len(ps) |->
        [iid |-> i, track |-> at[i].track, pos |-> ps[i],
         length |-> at[i].length, sel |-> at[i].sel]] :
        <<ps, at>> \in {p \in AscSeqs(ItemPosSet, 0, MaxItems) \X
                              UNION {[1..n -> [track : Tracks, length : ItemLengthSet,
                                               sel : BOOLEAN]] : n \in 0..MaxItems} :
                        Len(p[1]) = Len(p[2])}}

Init ==
    /\ pc = Idle
    /\ uin = [is |-> "None", ndups |-> 1, nbetween |-> 1]
    /\ hostSigs \in HostSigStores(RunSigTimeSet, 0)
    /\ hostItems \in HostItemStores
    /\ calls = NoCalls
    /\ siglist = <<>>
    /\ selectediids = {}
    /\ trackitems = <<>>
    /\ idx = 0
    /\ endt = 0
    /\ incountsigd = <<>>
    /\ sigtimes = <<>>
    /\ created = <<>>
    /\ nudges = <<>>
    /\ err = "none"
    /\ call = [op |-> "run", sigs |-> hostSigs, items |-> hostItems]
    /\ ret = NoRet

hostVars == <<hostSigs, hostItems, calls>>

gathered == <<siglist, selectediids, trackitems>>

\* lines 30-45: the dialog, and the inputs accepted
InputsOk ==
    /\ pc = Idle
    /\ call.op = "run"
    /\ \E result \in DialogResults :
          /\ InputsAccepted(userInputs(result))
          /\ uin' = userInputs(result)
    /\ pc' = "Gathering"
    /\ UNCHANGED <<hostVars, gathered, idx, endt, incountsigd, sigtimes,
                   created, nudges, err, call, ret>>

\* lines 31-42: cancelled, bad input or a negative count: return
InputsRefused ==
    /\ pc = Idle
    /\ call.op = "run"
    /\ \E result \in DialogResults :
          /\ ~InputsAccepted(userInputs(result))
          /\ uin' = userInputs(result)
    /\ pc' = "Cancelled"
    /\ UNCHANGED <<hostVars, gathered, idx, endt, incountsigd, sigtimes,
                   created, nudges, err, call, ret>>

\* lines 74-98: the selected items, in host order
SelectedItems(items) == SelectSeq(items, LAMBDA it : it.sel)

\* line 106: the tracks of the selected items
SelectedTracks(items) == {SelectedItems(items)[i].track : i \in 1..Len(SelectedItems(items))}

\* line 108: "if len(set(tracks)) != 1: return"
OneTrack(items) == Cardinality(SelectedTracks(items)) = 1

\* lines 122-127: every item of the track
TrackItems(items, track) == SelectSeq(items, LAMBDA it : it.track = track)

\* lines 59-129: snapshot the markers, the selection and the track's items
Gather ==
    /\ pc = "Gathering"
    /\ OneTrack(hostItems)
    /\ siglist' = Snapshot(hostSigs)
    /\ selectediids' = {SelectedItems(hostItems)[i].iid : i \in 1..Len(SelectedItems(hostItems))}
    /\ trackitems' =
          LET ti == TrackItems(hostItems, CHOOSE tr \in SelectedTracks(hostItems) : TRUE)
          IN  [i \in 1..Len(ti) |-> MediaItemReplicator(hostSigs, ti[i])]
    /\ pc' = "Clearing"
    /\ UNCHANGED <<hostVars, uin, idx, endt, incountsigd, sigtimes, created,
                   nudges, err, call, ret>>

\* mutant: the track check is made after the UI refresh is suspended
GatherRefusedSuspended ==
    /\ pc = "Gathering"
    /\ ~OneTrack(hostItems)
    /\ siglist' = Snapshot(hostSigs)
    /\ selectediids' = {SelectedItems(hostItems)[i].iid : i \in 1..Len(SelectedItems(hostItems))}
    /\ calls' = [calls EXCEPT !.suspend = @ + 1]
    /\ pc' = "Cancelled"
    /\ UNCHANGED <<hostSigs, hostItems, uin, trackitems, idx, endt, incountsigd,
                   sigtimes, created, nudges, err, call, ret>>

\* lines 108-110: no selected item, or more than one track: return
GatherRefused ==
    /\ pc = "Gathering"
    /\ ~OneTrack(hostItems)
    /\ siglist' = Snapshot(hostSigs)
    /\ selectediids' = {SelectedItems(hostItems)[i].iid : i \in 1..Len(SelectedItems(hostItems))}
    /\ pc' = "Cancelled"
    /\ UNCHANGED <<hostVars, uin, trackitems, idx, endt, incountsigd, sigtimes,
                   created, nudges, err, call, ret>>

\* line 135: RPR_PreventUIRefresh(1)
Suspend ==
    /\ pc = "Clearing"
    /\ calls' = [calls EXCEPT !.suspend = @ + 1]
    /\ idx' = Len(siglist)
    /\ pc' = "Removing"
    /\ UNCHANGED <<hostSigs, hostItems, uin, gathered, endt, incountsigd,
                   sigtimes, created, nudges, err, call, ret>>

\* TempoTimeSigMarkerWrapper.remove(): the host deletes the marker at the
\* wrapper's index if there is one; a failure is only logged
remove(host, sig) ==
    IF sig.ptidx + 1 \in 1..Len(host) THEN HostDeleteSig(host, sig.ptidx) ELSE host

\* mutant: the snapshot is walked earliest first
RemoveSigForward ==
    /\ pc = "Removing"
    /\ idx >= 1
    /\ hostSigs' = remove(hostSigs, siglist[Len(siglist) - idx + 1])
    /\ calls' = [calls EXCEPT !.delete = @ + 1]
    /\ idx' = idx - 1
    /\ UNCHANGED <<pc, hostItems, uin, gathered, endt, incountsigd, sigtimes,
                   created, nudges, err, call, ret>>

\* lines 141-142: "for sig in reversed(siglist): sig.remove()", one pass
RemoveSig ==
    /\ pc = "Removing"
    /\ idx >= 1
    /\ hostSigs' = remove(hostSigs, siglist[idx])
    /\ calls' = [calls EXCEPT !.delete = @ + 1]
    /\ idx' = idx - 1
    /\ UNCHANGED <<pc, hostItems, uin, gathered, endt, incountsigd, sigtimes,
                   created, nudges, err, call, ret>>

\* lines 150-163: RPR_SelectAllMediaItems(0, False); endt = 0.0;
\* incountsigd = {}
Deselect ==
    /\ pc = "Removing"
    /\ idx = 0
    /\ hostItems' = SelectAllMediaItems(hostItems, FALSE)
    /\ calls' = [calls EXCEPT !.select = @ + 1]
    /\ endt' = 0
    /\ incountsigd' = <<>>
    /\ idx' = 1
    /\ pc' = "Replicating"
    /\ UNCHANGED <<hostSigs, uin, gathered, sigtimes, created, nudges, err,
                   call, ret>>

\* mutant: every track item is given the user's copies
CopiesForAll(item, selected, ndups) == ndups

\* lines 166-173: the copies asked of replicate() for a track item
CopiesFor(item, selected, ndups) == IF item.iid \in selected THEN ndups ELSE 0

\* lines 164-175, one pass of "for item in trackitems:" that returns
ReplicateItem ==
    /\ pc = "Replicating"
    /\ idx <= Len(trackitems)
    /\ LET r == replicate(trackitems[idx], siglist, endt,
                          CopiesFor(trackitems[idx], selectediids, uin.ndups),
                          uin.nbetween)
       IN  /\ r.err = "none"
           /\ hostItems' = ApplyItemCalls(hostItems, r.hostcalls, 1)
           /\ calls' = CountItemCalls(calls, r.hostcalls)
           /\ nudges' = Append(nudges, CountOp(r.hostcalls, "ApplyNudge"))
           /\ endt' = r.t
           /\ incountsigd' = Update(incountsigd, r.d)
    /\ idx' = idx + 1
    /\ UNCHANGED <<pc, hostSigs, uin, gathered, sigtimes, created, err, call, ret>>

\* one pass in which replicate() raises: the run ends there
ReplicateRaises ==
    /\ pc = "Replicating"
    /\ idx <= Len(trackitems)
    /\ LET r == replicate(trackitems[idx], siglist, endt,
                          CopiesFor(trackitems[idx], selectediids, uin.ndups),
                          uin.nbetween)
       IN  /\ r.err # "none"
           /\ hostItems' = ApplyItemCalls(hostItems, r.hostcalls, 1)
           /\ calls' = CountItemCalls(calls, r.hostcalls)
           /\ err' = r.err
    /\ pc' = "Failed"
    /\ UNCHANGED <<hostSigs, uin, gathered, idx, endt, incountsigd, sigtimes,
                   created, nudges, call, ret>>

\* line 187: sigtimes = getNonRedundantSigTimes(incountsigd)
GetSigTimes ==
    /\ pc = "Replicating"
    /\ idx > Len(trackitems)
    /\ sigtimes' = getNonRedundantSigTimes(incountsigd)
    /\ idx' = 1
    /\ pc' = "Finalizing"
    /\ UNCHANGED <<hostVars, uin, gathered, endt, incountsigd, created, nudges,
                   err, call, ret>>

\* lines 190-191, one pass: incountsigd[t].create() accepted by the host
CreateSig ==
    /\ pc = "Finalizing"
    /\ idx <= Len(sigtimes)
    /\ hostSigs' = HostInsertSig(hostSigs, incountsigd[sigtimes[idx]])
    /\ calls' = [calls EXCEPT !.create = @ + 1]
    /\ created' = Append(created, incountsigd[sigtimes[idx]])
    /\ idx' = idx + 1
    /\ UNCHANGED <<pc, hostItems, uin, gathered, endt, incountsigd, sigtimes,
                   nudges, err, call, ret>>

\* lines 257-258: the host refuses the marker, create() raises ValueError
CreateSigRefused ==
    /\ pc = "Finalizing"
    /\ idx <= Len(sigtimes)
    /\ calls' = [calls EXCEPT !.create = @ + 1]
    /\ err' = "ValueError"
    /\ pc' = "Failed"
    /\ UNCHANGED <<hostSigs, hostItems, uin, gathered, idx, endt, incountsigd,
                   sigtimes, created, nudges, call, ret>>

\* lines 201-202: RPR_PreventUIRefresh(-1); RPR_UpdateArrange()
Resume ==
    /\ pc = "Finalizing"
    /\ idx > Len(sigtimes)
    /\ calls' = [calls EXCEPT !.resume = @ + 1]
    /\ pc' = "Done"
    /\ UNCHANGED <<hostSigs, hostItems, uin, gathered, idx, endt, incountsigd,
                   sigtimes, created, nudges, err, call, ret>>

Next ==
    \/ InputsOk
    \/ InputsRefused
    \/ Gather
    \/ GatherRefused
    \/ Suspend
    \/ RemoveSig
    \/ Deselect
    \/ ReplicateItem
    \/ ReplicateRaises
    \/ GetSigTimes
    \/ CreateSig
    \/ CreateSigRefused
    \/ Resume

Spec == Init /\ [][Next]_vars

\* ------------------------------------------------------ claims: replicate
\* the call under test has returned (or raised)
Returned == call.op = "replicate" /\ ret # NoRet

\* the segment one placement occupies, from the claim's own formula:
\* gapTime + intime + length + outtime, gapTime = gapMeasures *
\* posMeasureLenBeats * 60/posBpm
SegmentTime ==
    call.nbetween * call.self.poscml * (MsPerMinute \div call.self.posbpm)
    + call.self.intime + call.self.length + call.self.outtime

\* the markers of the snapshot that lie in the item
InteriorMarkers ==
    {i \in 1..Len(call.tempotimesiglist) :
        /\ call.self.pos <= call.tempotimesiglist[i].timepos
        /\ call.tempotimesiglist[i].timepos < call.self.pos + call.self.length}

\* the item was moved (step 6)
Moved == \E i \in 1..Len(ret.hostcalls) : ret.hostcalls[i].op = "SetPosition"

\* C1: replicate(t0, copies, gapMeasures) returns the cursor
\* t0 + (copies + 1) * (gapTime + intime + length + outtime), whether or not
\* the item was moved.
C1_FinalCursor ==
    Returned => /\ ret.err = "none"
                /\ ret.t = call.t0 + (call.ndups + 1) * SegmentTime

C1_Witness ==
    /\ Returned
    /\ call.ndups = MaxDups
    /\ call.nbetween > 0
    /\ call.self.outtime > 0
    /\ Moved

C1_WitnessNotMoved ==
    /\ Returned
    /\ call.ndups > 0
    /\ ~Moved

\* C2: the returned marker map has exactly
\* (copies + 1) + (copies + 1) * |interiorMarkers| keys.
C2_KeyCount ==
    Returned => Cardinality(DOMAIN ret.d)
                  = (call.ndups + 1) + (call.ndups + 1) * Cardinality(InteriorMarkers)

\* C3: for every k in 0..copies the returned map holds, at key
\* t0 + k * (gapTime + intime + length + outtime), a marker with the bpm,
\* numerator and denominator of leadTempoMarker.
C3_LeadInMarkers ==
    Returned =>
        \A k \in 0..call.ndups :
            LET key == call.t0 + k * SegmentTime
                lead == Insig(call.self, call.tempotimesiglist)
            IN  /\ key \in DOMAIN ret.d
                /\ ret.d[key].bpm = lead.bpm
                /\ ret.d[key].timesig_num = lead.timesig_num
                /\ ret.d[key].timesig_denom = lead.timesig_denom

\* C4: every entry of the returned marker map is keyed by the time position
\* of the marker it holds.
C4_KeyedByTimepos ==
    Returned => \A k \in DOMAIN ret.d : ret.d[k].timepos = k

\* --------------------------------------------------------- claims: clone
\* C9: clone(timeValue, isOffset, deferred=True) performs no mutation of
\* the host marker store, for every source marker, loaded (ptidx >= 0) or
\* itself not yet materialized (ptidx = -1).
C9_DeferredCloneLeavesStore ==
    (call.op = "clone" /\ ret.err = "none" /\ call.deferred) => hostSigs = call.host

\* ----------------------------------------- claims: getNonRedundantSigTimes
\* C7: getNonRedundantSigTimes is idempotent: applied to M restricted to
\* the keys it returned for M, it returns the same set of times.
C7_Idempotent ==
    (call.op = "getNonRedundantSigTimes" /\ "twice" \in DOMAIN ret)
        => Range(ret.twice) = Range(ret.once)

\* ------------------------------------------------------------ claims: run
Terminal == pc \in {"Done", "Cancelled", "Failed"}

\* C5: in every terminal state of run() the number of resume calls
\* PreventUIRefresh(-1) equals the number of suspend calls
\* PreventUIRefresh(1).
C5_SuspendResumePaired == Terminal => calls.resume = calls.suspend

\* C6: a run that ends in Cancelled has made no mutating host call, has
\* left the marker store and the media items as they were, and is cancelled
\* from Idle or Gathering only: it never enters Clearing.
C6_CancelledNoMutation ==
    /\ [](pc = "Cancelled" =>
            /\ calls = NoCalls
            /\ hostSigs = call.sigs
            /\ hostItems = call.items)
    /\ [][pc' = "Cancelled" => pc \in {Idle, "Gathering", "Cancelled"}]_vars

\* cancelled by the selection: none selected, or more than one track
C6_Witness ==
    /\ pc = "Cancelled"
    /\ uin.is = "Map"
    /\ uin.ndups >= 0
    /\ uin.nbetween >= 0
    /\ Len(call.sigs) > 0
    /\ \E i, j \in 1..Len(call.items) :
          /\ call.items[i].sel
          /\ call.items[j].sel
          /\ call.items[i].track # call.items[j].track

\* cancelled by a negative count
C6_WitnessNegative == pc = "Cancelled" /\ uin.is = "Map" /\ uin.ndups < 0

\* C8: no two time-adjacent markers materialized in Finalizing have the
\* same bpm, numerator, denominator and linearTempo flag.
C8_NoAdjacentEquivalent ==
    \A a, b \in 1..Len(created) :
        (/\ a # b
         /\ created[a].timepos <= created[b].timepos
         /\ ~\E c \in 1..Len(created) \ {a, b} :
                /\ created[a].timepos <= created[c].timepos
                /\ created[c].timepos <= created[b].timepos)
        => ~(/\ created[a].bpm = created[b].bpm
             /\ created[a].timesig_num = created[b].timesig_num
             /\ created[a].timesig_denom = created[b].timesig_denom
             /\ created[a].lineartempo = created[b].lineartempo)

\* a finished run that materialized several markers and dropped a redundant
\* one that is not the earliest
C8_Witness ==
    /\ pc = "Done"
    /\ Len(created) >= 2
    /\ \E k \in DOMAIN incountsigd :
          /\ k # Min(DOMAIN incountsigd)
          /\ \A i \in 1..Len(sigtimes) : sigtimes[i] # k

\* the time the placements of track item i take: (copies + 1) segments of
\* gap, lead-in, length and trail-out
ItemSpan(i) ==
    ((IF trackitems[i].iid \in selectediids THEN uin.ndups ELSE 0) + 1)
    * (uin.nbetween * trackitems[i].poscml * (MsPerMinute \div trackitems[i].posbpm)
       + trackitems[i].intime + trackitems[i].length + trackitems[i].outtime)

RECURSIVE SpanUpTo(_)
SpanUpTo(n) == IF n = 0 THEN 0 ELSE SpanUpTo(n - 1) + ItemSpan(n)

LeadIsLatestAtOrBefore(lead, self, snapshot) ==
    LET atOrBefore == {i \in 1..Len(snapshot) :
                          snapshot[i].timepos <= self.pos + Eps}
    IN  IF atOrBefore = {}
        THEN \E i \in 1..Len(snapshot) :
                /\ lead = snapshot[i]
                /\ \A j \in 1..Len(snapshot) : snapshot[i].timepos <= snapshot[j].timepos
        ELSE \E i \in atOrBefore :
                /\ lead = snapshot[i]
                /\ \A j \in atOrBefore : snapshot[j].timepos <= snapshot[i].timepos

\* C11: whenever run() calls replicate() for a clip the snapshot is not
\* empty, and the lead marker is the snapshot marker with the latest
\* timepos <= clip position + .001, or the earliest marker if none is.
C11_LeadMarkerDetermined ==
    (pc = "Replicating" /\ idx <= Len(trackitems)) =>
        /\ Len(siglist) > 0
        /\ LeadIsLatestAtOrBefore(Insig(trackitems[idx], siglist),
                                  trackitems[idx], siglist)

\* the part of C11 about a snapshot that is not empty, for replicate() alone
LeadOfNonEmptySnapshot ==
    (call.op = "replicate" /\ Len(call.tempotimesiglist) > 0) =>
        LeadIsLatestAtOrBefore(Insig(call.self, call.tempotimesiglist),
                               call.self, call.tempotimesiglist)

\* the same in run(), for the calls made with a snapshot that is not empty
LeadOfNonEmptySnapshotInRun ==
    (pc = "Replicating" /\ idx <= Len(trackitems) /\ Len(siglist) > 0) =>
        LeadIsLatestAtOrBefore(Insig(trackitems[idx], siglist),
                               trackitems[idx], siglist)

\* ------------------------------------------------------- claims: Clearing
\* C12: the snapshot markers are deleted latest first: every marker still to
\* be removed is in the host store at the index it was snapshotted from, so
\* every remove() call targets its own marker; the deletions made took the
\* latest markers and nothing else, so that none of the snapshot is left
\* after the last one; and no marker is created before the last remove().
C12_RemovedLatestFirst ==
    /\ pc = "Removing" =>
          /\ calls.delete = Len(siglist) - idx
          /\ \A i \in 1..idx :
                /\ siglist[i].ptidx + 1 \in 1..Len(hostSigs)
                /\ hostSigs[siglist[i].ptidx + 1] = call.sigs[siglist[i].ptidx + 1]
          /\ hostSigs = SubSeq(call.sigs, 1, idx)
    /\ (pc = "Replicating" /\ call.op = "run") =>
          /\ calls.delete = Len(siglist)
          /\ hostSigs = <<>>
    /\ (pc \in {Idle, "Gathering", "Clearing", "Removing", "Replicating"}
          \/ calls.delete < Len(siglist)) =>
          /\ calls.create = 0
          /\ created = <<>>

\* every marker of a snapshot of MaxSigs markers was removed
C12_Witness ==
    /\ pc = "Replicating"
    /\ Len(siglist) = MaxSigs
    /\ MaxSigs >= 2
    /\ calls.delete = MaxSigs
    /\ hostSigs = <<>>
    /\ \A i \in 1..Len(siglist) : siglist[i].ptidx = i - 1

\* ------------------------------------------------------ claims: selection
\* the host items selected in a store
SelectedIids(items) == {items[k].iid : k \in {n \in 1..Len(items) : items[n].sel}}

\* C13: between clips no clip is selected, and at every nudge-by-duplicate
\* call of the replicate() about to run exactly one clip is selected: the
\* clip being replicated or, once copies were made, its latest copy.
C13_OneClipSelectedAtNudge ==
    (pc = "Replicating" /\ idx <= Len(trackitems)) =>
        /\ SelectedIids(hostItems) = {}
        /\ LET r == replicate(trackitems[idx], siglist, endt,
                              CopiesFor(trackitems[idx], selectediids, uin.ndups),
                              uin.nbetween)
           IN  \A j \in 1..Len(r.hostcalls) :
                  r.hostcalls[j].op = "ApplyNudge" =>
                     LET items == ApplyItemCalls(hostItems, SubSeq(r.hostcalls, 1, j - 1), 1)
                     IN  SelectedIids(items) =
                            {IF Len(items) > Len(hostItems) THEN Len(items)
                             ELSE trackitems[idx].iid}

\* the second part alone: the selection at the nudge calls of the first
\* clip of the track, before any copy of another clip exists
OneClipSelectedAtNudgeOfFirstClip ==
    (pc = "Replicating" /\ idx = 1 /\ idx <= Len(trackitems)) =>
        LET r == replicate(trackitems[idx], siglist, endt,
                           CopiesFor(trackitems[idx], selectediids, uin.ndups),
                           uin.nbetween)
        IN  \A j \in 1..Len(r.hostcalls) :
               r.hostcalls[j].op = "ApplyNudge" =>
                  LET items == ApplyItemCalls(hostItems, SubSeq(r.hostcalls, 1, j - 1), 1)
                  IN  SelectedIids(items) =
                         {IF Len(items) > Len(hostItems) THEN Len(items)
                          ELSE trackitems[idx].iid}

\* ------------------------------------------- claims: the effective tempo map
\* the keys getNonRedundantSigTimes returned that are at or before k
KeptAtOrBefore(k) == {t \in Range(ret.once) : t <= k}

\* C14: for every map M that is not empty the earliest key of M is
\* returned by getNonRedundantSigTimes, and for every key k of M the
\* returned key latest at or before k exists and holds a marker equivalent
\* to M[k].
C14_TempoMapPreserved ==
    (call.op = "getNonRedundantSigTimes" /\ ret # NoRet /\ DOMAIN call.sigd # {}) =>
        /\ Min(DOMAIN call.sigd) \in Range(ret.once)
        /\ \A k \in DOMAIN call.sigd :
              /\ KeptAtOrBefore(k) # {}
              /\ equivalentSigs(call.sigd[Max(KeptAtOrBefore(k))], call.sigd[k])

\* what is left of C14 from the first returned key on
TempoMapPreservedAfterFirstKept ==
    (call.op = "getNonRedundantSigTimes" /\ ret # NoRet) =>
        \A k \in DOMAIN call.sigd :
            KeptAtOrBefore(k) # {} =>
                equivalentSigs(call.sigd[Max(KeptAtOrBefore(k))], call.sigd[k])

\* ------------------------------------------------------ claims: placements
\* the host items after the call's host calls, on a track that holds the
\* clip alone: the clip, then its copies in the order they were made
Placements ==
    ApplyItemCalls(<<[iid |-> call.self.iid, track |-> 1, pos |-> call.self.pos,
                      length |-> call.self.length, sel |-> FALSE]>>,
                   ret.hostcalls, 1)

\* where the claim's formula puts the start of placement k
PlacementStart(k) ==
    call.t0 + k * SegmentTime
    + call.nbetween * call.self.poscml * (MsPerMinute \div call.self.posbpm)
    + call.self.intime

\* C15: after replicate(t0, copies, gapMeasures) the clip and its copies
\* start at t0 + k * (gapTime + intime + length + outtime) + gapTime + intime,
\* k = 0..copies, also when the clip was later than that before the call.
C15_PlacementPositions ==
    (Returned /\ ret.err = "none") =>
        /\ Len(Placements) = call.ndups + 1
        /\ \A k \in 0..call.ndups : Placements[k + 1].pos = PlacementStart(k)

\* C15 for the clips that were not later than their first placement
PlacementPositionsOfEarlierClip ==
    (Returned /\ ret.err = "none" /\ call.self.pos <= PlacementStart(0)) =>
        /\ Len(Placements) = call.ndups + 1
        /\ \A k \in 0..call.ndups : Placements[k + 1].pos = PlacementStart(k)

====
